---- MODULE Spec2Model ----
(***************************************************************************)
(* Binary to string encode/decode (src/common/encode.c): the Base64        *)
(* encoder, decoder, validator and size calculators, and the generic       *)
(* dispatchers that select them by EncodeType.                             *)
(*                                                                         *)
(* C arrays are 0-based and TLA+ sequences 1-based: element i of a C       *)
(* buffer is element i + 1 of the sequence that models it.  A char buffer  *)
(* holds character codes 0..255 and a C string ends at its first 0.        *)
(***************************************************************************)
EXTENDS Integers, Sequences, FiniteSets, TLC

(***************************************************************************)
(* Bounds of the model                                                     *)
(***************************************************************************)
MaxSrcLen == 4
MaxTextLen == 4

(***************************************************************************)
(* Bit operations of C on non-negative operands                            *)
(***************************************************************************)
RECURSIVE BitAnd(_, _)
BitAnd(a, b) ==
    IF a = 0 \/ b = 0 THEN 0
    ELSE (a % 2) * (b % 2) + 2 * BitAnd(a \div 2, b \div 2)

RECURSIVE BitOr(_, _)
BitOr(a, b) ==
    IF a = 0 THEN b
    ELSE IF b = 0 THEN a
    ELSE (IF a % 2 = 1 \/ b % 2 = 1 THEN 1 ELSE 0) + 2 * BitOr(a \div 2, b \div 2)

Shl(a, n) == a * 2^n

Shr(a, n) == a \div 2^n

UChar(x) == x % 256

SizeMod == 2^30

SizeT(x) == x % SizeMod

(***************************************************************************)
(* Errors and return values                                                *)
(***************************************************************************)
NoError == [type |-> "none", message |-> "", arg |-> -1]

FormatError(message, arg) == [type |-> "FormatError", message |-> message, arg |-> arg]

ENCODE_TYPE_INVALID_ERROR(type) ==
    [type |-> "AssertError", message |-> "invalid encode type %u", arg |-> type]

NoReturn == [kind |-> "none", val |-> 0]

ReturnVoid == [kind |-> "void", val |-> 0]

ReturnSize(n) == [kind |-> "size", val |-> n]

ReturnBool(b) == [kind |-> "bool", val |-> IF b THEN 1 ELSE 0]

(***************************************************************************)
(* Lookup tables                                                           *)
(***************************************************************************)
encodeBase64Lookup ==
    << 65, 66, 67, 68, 69, 70, 71, 72, 73, 74, 75, 76, 77, 78, 79, 80,
       81, 82, 83, 84, 85, 86, 87, 88, 89, 90, 97, 98, 99, 100, 101, 102,
       103, 104, 105, 106, 107, 108, 109, 110, 111, 112, 113, 114, 115, 116, 117, 118,
       119, 120, 121, 122, 48, 49, 50, 51, 52, 53, 54, 55, 56, 57, 43, 47 >>

decodeBase64Lookup ==
    << -1, -1, -1, -1, -1, -1, -1, -1, -1, -1, -1, -1, -1, -1, -1, -1,
       -1, -1, -1, -1, -1, -1, -1, -1, -1, -1, -1, -1, -1, -1, -1, -1,
       -1, -1, -1, -1, -1, -1, -1, -1, -1, -1, -1, 62, -1, -1, -1, 63,
       52, 53, 54, 55, 56, 57, 58, 59, 60, 61, -1, -1, -1, -1, -1, -1,
       -1,  0,  1,  2,  3,  4,  5,  6,  7,  8,  9, 10, 11, 12, 13, 14,
       15, 16, 17, 18, 19, 20, 21, 22, 23, 24, 25, -1, -1, -1, -1, -1,
       -1, 26, 27, 28, 29, 30, 31, 32, 33, 34, 35, 36, 37, 38, 39, 40,
       41, 42, 43, 44, 45, 46, 47, 48, 49, 50, 51, -1, -1, -1, -1, -1,
       -1, -1, -1, -1, -1, -1, -1, -1, -1, -1, -1, -1, -1, -1, -1, -1,
       -1, -1, -1, -1, -1, -1, -1, -1, -1, -1, -1, -1, -1, -1, -1, -1,
       -1, -1, -1, -1, -1, -1, -1, -1, -1, -1, -1, -1, -1, -1, -1, -1,
       -1, -1, -1, -1, -1, -1, -1, -1, -1, -1, -1, -1, -1, -1, -1, -1,
       -1, -1, -1, -1, -1, -1, -1, -1, -1, -1, -1, -1, -1, -1, -1, -1,
       -1, -1, -1, -1, -1, -1, -1, -1, -1, -1, -1, -1, -1, -1, -1, -1,
       -1, -1, -1, -1, -1, -1, -1, -1, -1, -1, -1, -1, -1, -1, -1, -1,
       -1, -1, -1, -1, -1, -1, -1, -1, -1, -1, -1, -1, -1, -1, -1, -1 >>

(***************************************************************************)
(* State                                                                   *)
(***************************************************************************)
VARIABLES
    encodeType,     \* the EncodeType tag the caller passes (an enum stored as an unsigned)
    binSource,      \* the caller's bytes to encode
    strBuf,         \* the caller's char buffer: written by encodeToStr, read by the decode functions
    binDest,        \* the bytes the last decodeToBin wrote to its destination, in index order
    op,             \* the function called last
    error,          \* the error that call threw, or NoError
    ret,            \* the value that call returned
    reads,          \* the indices of the source that call read by subscript
    lookups,        \* the indices of decodeBase64Lookup that call read
    charSigned,     \* whether plain char is signed in this build
    lookupBelow     \* what this build's memory holds in front of decodeBase64Lookup

vars == <<encodeType, binSource, strBuf, binDest, op, error, ret, reads, lookups, charSigned, lookupBelow>>

encodeBase64 == 0

EncodeTypes == {encodeBase64, 1}

(***************************************************************************)
(* strlen and subscripting of C strings                                    *)
(***************************************************************************)
strlen(s) ==
    IF \E i \in 1..Len(s) : s[i] = 0
    THEN (CHOOSE i \in 1..Len(s) : s[i] = 0 /\ \A j \in 1..(i - 1) : s[j] # 0) - 1
    ELSE Len(s)

\* (int)source[i] as used to subscript decodeBase64Lookup: a signed char with the high bit set is negative
CharToInt(c) == IF charSigned /\ c >= 128 THEN c - 256 ELSE c

\* decodeBase64Lookup[i]: an index in front of the table reads whatever the build placed there
LookupRead(i) == IF i \in 0..255 THEN decodeBase64Lookup[i + 1] ELSE lookupBelow

(***************************************************************************)
(* encodeToStrBase64                                                       *)
(***************************************************************************)
\* the four characters of a group, from its bytes
EncodeChar1(b0) == encodeBase64Lookup[Shr(b0, 2) + 1]

EncodeChar2Last(b0) == encodeBase64Lookup[Shl(BitAnd(b0, 3), 4) + 1]

EncodeChar2(b0, b1) == encodeBase64Lookup[BitOr(Shl(BitAnd(b0, 3), 4), Shr(BitAnd(b1, 240), 4)) + 1]

\* the wrong mask
EncodeChar3LastMask3(b1) == encodeBase64Lookup[Shl(BitAnd(b1, 3), 2) + 1]

EncodeChar3Last(b1) == encodeBase64Lookup[Shl(BitAnd(b1, 15), 2) + 1]

EncodeChar3(b1, b2) == encodeBase64Lookup[BitOr(Shl(BitAnd(b1, 15), 2), Shr(BitAnd(b2, 192), 6)) + 1]

EncodeChar4(b2) == encodeBase64Lookup[BitAnd(b2, 63) + 1]

\* the for loop: destination holds the characters written so far, so destinationIdx = Len(destination)
RECURSIVE EncodeLoop(_, _, _, _, _)
EncodeLoop(source, sourceSize, sourceIdx, destination, rd) ==
    IF ~(sourceIdx < sourceSize)
    THEN [destination |-> destination, reads |-> rd]
    ELSE
        LET b0 == source[sourceIdx + 1]
        IN  IF sourceSize - sourceIdx = 1
            THEN EncodeLoop(source, sourceSize, sourceIdx + 3,
                            destination \o <<EncodeChar1(b0), EncodeChar2Last(b0), 61, 61>>,
                            rd \cup {sourceIdx})
            ELSE
                LET b1 == source[sourceIdx + 2]
                IN  IF sourceSize - sourceIdx = 2
                    THEN EncodeLoop(source, sourceSize, sourceIdx + 3,
                                    destination \o <<EncodeChar1(b0), EncodeChar2(b0, b1), EncodeChar3Last(b1), 61>>,
                                    rd \cup {sourceIdx, sourceIdx + 1})
                    ELSE
                        LET b2 == source[sourceIdx + 3]
                        IN  EncodeLoop(source, sourceSize, sourceIdx + 3,
                                       destination \o <<EncodeChar1(b0), EncodeChar2(b0, b1),
                                                        EncodeChar3(b1, b2), EncodeChar4(b2)>>,
                                       rd \cup {sourceIdx, sourceIdx + 1, sourceIdx + 2})

\* the loop, then the zero terminator at destinationIdx
encodeToStrBase64(source, sourceSize) ==
    LET r == EncodeLoop(source, sourceSize, 0, <<>>, {})
    IN  [destination |-> Append(r.destination, 0), reads |-> r.reads]

encodeToStrSizeBase64(sourceSize) ==
    LET encodeGroupTotal == sourceSize \div 3
    IN  IF sourceSize % 3 # 0 THEN (encodeGroupTotal + 1) * 4 ELSE encodeGroupTotal * 4

(***************************************************************************)
(* decodeToBinValidateBase64                                               *)
(***************************************************************************)
\* '=' allowed in the last position only
ValidateCharLastOnly(source, sourceSize, sourceIdx) ==
    LET c == source[sourceIdx + 1]
    IN  IF c = 61
        THEN [error |-> IF sourceIdx < sourceSize - 1
                        THEN FormatError("base64 '=' character may only appear in last two positions", -1)
                        ELSE NoError,
              reads |-> {sourceIdx}, lookups |-> {}]
        ELSE [error |-> IF LookupRead(CharToInt(c)) = -1
                        THEN FormatError("base64 invalid character found at position %u", sourceIdx)
                        ELSE NoError,
              reads |-> {sourceIdx}, lookups |-> {CharToInt(c)}]

\* the body of the scan for one position: the error it throws, or NoError
ValidateChar(source, sourceSize, sourceIdx) ==
    LET c == source[sourceIdx + 1]
    IN  IF c = 61
        THEN
            IF sourceIdx < sourceSize - 2
            THEN [error |-> FormatError("base64 '=' character may only appear in last two positions", -1),
                  reads |-> {sourceIdx}, lookups |-> {}]
            ELSE IF sourceIdx = sourceSize - 2
            THEN [error |-> IF source[sourceSize - 1 + 1] # 61
                            THEN FormatError("base64 last character must be '=' if second to last is", -1)
                            ELSE NoError,
                  reads |-> {sourceIdx, sourceSize - 1}, lookups |-> {}]
            ELSE [error |-> NoError, reads |-> {sourceIdx}, lookups |-> {}]
        ELSE
            [error |-> IF LookupRead(CharToInt(c)) = -1
                       THEN FormatError("base64 invalid character found at position %u", sourceIdx)
                       ELSE NoError,
             reads |-> {sourceIdx}, lookups |-> {CharToInt(c)}]

RECURSIVE ValidateLoop(_, _, _, _, _)
ValidateLoop(source, sourceSize, sourceIdx, rd, lk) ==
    IF ~(sourceIdx < sourceSize)
    THEN [error |-> NoError, reads |-> rd, lookups |-> lk]
    ELSE
        LET r == ValidateChar(source, sourceSize, sourceIdx)
        IN  IF r.error # NoError
            THEN [error |-> r.error, reads |-> rd \cup r.reads, lookups |-> lk \cup r.lookups]
            ELSE ValidateLoop(source, sourceSize, sourceIdx + 1, rd \cup r.reads, lk \cup r.lookups)

\* the length checked against 2
decodeToBinValidateBase64Even(source) ==
    LET sourceSize == strlen(source)
    IN  IF sourceSize % 2 # 0
        THEN [error |-> FormatError("base64 size %zu is not evenly divisible by 4", sourceSize),
              reads |-> {}, lookups |-> {}]
        ELSE ValidateLoop(source, sourceSize, 0, {}, {})

decodeToBinValidateBase64(source) ==
    LET sourceSize == strlen(source)
    IN  IF sourceSize % 4 # 0
        THEN [error |-> FormatError("base64 size %zu is not evenly divisible by 4", sourceSize),
              reads |-> {}, lookups |-> {}]
        ELSE ValidateLoop(source, sourceSize, 0, {}, {})

(***************************************************************************)
(* decodeToBinBase64                                                       *)
(***************************************************************************)
\* the three bytes of a group, from the table values of its characters
DecodeByte1(v0, v1) == UChar(BitOr(Shl(v0, 2), Shr(v1, 4)))

\* the wrong shift
DecodeByte2Shift4(v1, v2) == UChar(BitOr(Shl(v1, 4), Shr(v2, 4)))

DecodeByte2(v1, v2) == UChar(BitOr(Shl(v1, 4), Shr(v2, 2)))

\* the wrong mask
DecodeByte3Mask80(v2, v3) == UChar(BitOr(BitAnd(Shl(v2, 6), 128), v3))

DecodeByte3(v2, v3) == UChar(BitOr(BitAnd(Shl(v2, 6), 192), v3))

\* the for loop: destination holds the bytes written so far, so destinationIdx = Len(destination)
RECURSIVE DecodeLoop(_, _, _, _, _)
DecodeLoop(source, sourceIdx, destination, rd, lk) ==
    IF ~(sourceIdx < strlen(source))
    THEN [error |-> NoError, destination |-> destination, reads |-> rd, lookups |-> lk]
    ELSE
        LET c0 == source[sourceIdx + 1]
            c1 == source[sourceIdx + 2]
            c2 == source[sourceIdx + 3]
            c3 == source[sourceIdx + 4]
            v0 == LookupRead(CharToInt(c0))
            v1 == LookupRead(CharToInt(c1))
            v2 == LookupRead(CharToInt(c2))
            v3 == LookupRead(CharToInt(c3))
            d1 == <<DecodeByte1(v0, v1)>>
            d2 == IF c2 # 61 THEN <<DecodeByte2(v1, v2)>> ELSE <<>>
            d3 == IF c3 # 61 THEN <<DecodeByte3(v2, v3)>> ELSE <<>>
        IN  DecodeLoop(source, sourceIdx + 4, destination \o d1 \o d2 \o d3,
                       rd \cup {sourceIdx, sourceIdx + 1, sourceIdx + 2, sourceIdx + 3},
                       lk \cup {CharToInt(c0), CharToInt(c1)}
                          \cup (IF c2 # 61 THEN {CharToInt(c2)} ELSE {})
                          \cup (IF c3 # 61 THEN {CharToInt(c2), CharToInt(c3)} ELSE {}))

\* validate first; a throw leaves before anything is written
decodeToBinBase64(source) ==
    LET v == decodeToBinValidateBase64(source)
    IN  IF v.error # NoError
        THEN [error |-> v.error, destination |-> <<>>, reads |-> v.reads, lookups |-> v.lookups]
        ELSE DecodeLoop(source, 0, <<>>, v.reads, v.lookups)

(***************************************************************************)
(* decodeToBinSizeBase64                                                   *)
(***************************************************************************)
\* source[i] for the size calculation: before[k] is the byte k places in front of the string
SizeChar(source, before, i) == IF i < 0 THEN before[-i] ELSE source[i + 1]

\* the size without the validation
decodeToBinSizeBase64NoValidate(source, before) ==
    LET sourceSize == strlen(source)
        destinationSize == SizeT((sourceSize \div 4) * 3)
        pad1 == SizeChar(source, before, sourceSize - 1) = 61
        pad2 == pad1 /\ SizeChar(source, before, sourceSize - 2) = 61
    IN  [error |-> NoError,
         size |-> SizeT(destinationSize - (IF pad1 THEN 1 ELSE 0) - (IF pad2 THEN 1 ELSE 0)),
         reads |-> {sourceSize - 1} \cup (IF pad1 THEN {sourceSize - 2} ELSE {}),
         lookups |-> {}]

decodeToBinSizeBase64(source, before) ==
    LET v == decodeToBinValidateBase64(source)
        sourceSize == strlen(source)
        destinationSize == SizeT((sourceSize \div 4) * 3)
    IN  IF v.error # NoError
        THEN [error |-> v.error, size |-> 0, reads |-> v.reads, lookups |-> v.lookups]
        ELSE IF SizeChar(source, before, sourceSize - 1) = 61
        THEN IF SizeChar(source, before, sourceSize - 2) = 61
             THEN [error |-> NoError, size |-> SizeT(SizeT(destinationSize - 1) - 1),
                   reads |-> v.reads \cup {sourceSize - 1, sourceSize - 2}, lookups |-> v.lookups]
             ELSE [error |-> NoError, size |-> SizeT(destinationSize - 1),
                   reads |-> v.reads \cup {sourceSize - 1, sourceSize - 2}, lookups |-> v.lookups]
        ELSE [error |-> NoError, size |-> destinationSize,
              reads |-> v.reads \cup {sourceSize - 1}, lookups |-> v.lookups]

(***************************************************************************)
(* Inputs the callers pass                                                 *)
(***************************************************************************)
SeqsUpTo(S, n) == UNION {[1..k -> S] : k \in 0..n}

ByteVals == {0, 77, 255}

\* every sequence of the chosen bytes up to MaxSrcLen, and every byte value in each place of a group
ByteSeqs ==
    SeqsUpTo(ByteVals, MaxSrcLen)
        \cup {<<b>> : b \in 0..255} \cup {<<77, b>> : b \in 0..255} \cup {<<77, 97, b>> : b \in 0..255}

\* Q R = space 0x80
TextChars == {81, 82, 61, 32, 128}

\* QQQQ QQ== QR== QQQ= QQR= Q=QA QQ=A "QQ Q" QQ\x80Q TWFu
TextGroups ==
    {<<81, 81, 81, 81>>, <<81, 81, 61, 61>>, <<81, 82, 61, 61>>, <<81, 81, 81, 61>>, <<81, 81, 82, 61>>,
     <<81, 61, 81, 65>>, <<81, 81, 61, 65>>, <<81, 81, 32, 81>>, <<81, 81, 128, 81>>, <<84, 87, 70, 117>>}

\* TQ== TWE= TWFu TQ= QQQ
TextVectors ==
    {<<84, 81, 61, 61>>, <<84, 87, 69, 61>>, <<84, 87, 70, 117>>, <<84, 81, 61>>, <<81, 81, 81>>}

\* every text of the chosen characters up to MaxTextLen, every non-zero character value inside a group,
\* the chosen groups and every pair of them, and the documented vectors
Texts ==
    SeqsUpTo(TextChars, MaxTextLen)
        \cup {<<81, 81, c, 81>> : c \in 1..255}
        \cup TextGroups
        \cup {g \o h : g \in TextGroups, h \in TextGroups}
        \cup TextVectors

\* what a read in front of decodeBase64Lookup may find
LookupGarbage == {-1, 17}

\* what a read in front of a string may find
BeforeVals == {0, 61}

\* the state before any call: the tag and the build are fixed, no function was called yet
InitCommon ==
    /\ encodeType \in EncodeTypes
    /\ charSigned \in BOOLEAN
    /\ lookupBelow \in (IF charSigned THEN LookupGarbage ELSE {-1})
    /\ binDest = <<>>
    /\ op = "none"
    /\ error = NoError
    /\ ret = NoReturn
    /\ reads = {}
    /\ lookups = {}

\* a caller with bytes to encode and an empty string
InitEncode ==
    /\ InitCommon
    /\ binSource \in ByteSeqs
    /\ strBuf = <<0>>

\* a caller with a text to validate or decode and no bytes
InitDecode ==
    /\ InitCommon
    /\ binSource = <<>>
    /\ strBuf \in {Append(t, 0) : t \in Texts}

(***************************************************************************)
(* Generic encoding/decoding                                               *)
(***************************************************************************)
EncodeToStr ==
    /\ op' = "encodeToStr"
    /\ IF encodeType = encodeBase64
       THEN LET r == encodeToStrBase64(binSource, Len(binSource))
            IN  /\ strBuf' = r.destination
                /\ reads' = r.reads
                /\ error' = NoError
                /\ ret' = ReturnVoid
       ELSE /\ error' = ENCODE_TYPE_INVALID_ERROR(encodeType)
            /\ ret' = NoReturn
            /\ reads' = {}
            /\ UNCHANGED strBuf
    /\ lookups' = {}
    /\ UNCHANGED <<encodeType, binSource, binDest, charSigned, lookupBelow>>

EncodeToStrSize ==
    /\ op' = "encodeToStrSize"
    /\ IF encodeType = encodeBase64
       THEN /\ ret' = ReturnSize(encodeToStrSizeBase64(Len(binSource)))
            /\ error' = NoError
       ELSE /\ error' = ENCODE_TYPE_INVALID_ERROR(encodeType)
            /\ ret' = NoReturn
    /\ reads' = {}
    /\ lookups' = {}
    /\ UNCHANGED <<encodeType, binSource, strBuf, binDest, charSigned, lookupBelow>>

DecodeToBin ==
    /\ op' = "decodeToBin"
    /\ IF encodeType = encodeBase64
       THEN LET r == decodeToBinBase64(strBuf)
            IN  /\ error' = r.error
                /\ ret' = IF r.error = NoError THEN ReturnVoid ELSE NoReturn
                /\ binDest' = IF r.error = NoError \/ r.destination # <<>> THEN r.destination ELSE binDest
                /\ reads' = r.reads
                /\ lookups' = r.lookups
       ELSE /\ error' = ENCODE_TYPE_INVALID_ERROR(encodeType)
            /\ ret' = NoReturn
            /\ reads' = {}
            /\ lookups' = {}
            /\ UNCHANGED binDest
    /\ UNCHANGED <<encodeType, binSource, strBuf, charSigned, lookupBelow>>

DecodeToBinSize ==
    /\ op' = "decodeToBinSize"
    /\ IF encodeType = encodeBase64
       THEN \E before \in [1..2 -> BeforeVals] :
                LET r == decodeToBinSizeBase64(strBuf, before)
                IN  /\ error' = r.error
                    /\ ret' = IF r.error = NoError THEN ReturnSize(r.size) ELSE NoReturn
                    /\ reads' = r.reads
                    /\ lookups' = r.lookups
       ELSE /\ error' = ENCODE_TYPE_INVALID_ERROR(encodeType)
            /\ ret' = NoReturn
            /\ reads' = {}
            /\ lookups' = {}
    /\ UNCHANGED <<encodeType, binSource, strBuf, binDest, charSigned, lookupBelow>>

\* an unknown tag taken for Base64
decodeToBinValidateDefault(type, source) == decodeToBinValidateBase64(source)

\* the dispatcher: what decodeToBinValidate throws and reads
decodeToBinValidate(type, source) ==
    IF type = encodeBase64
    THEN decodeToBinValidateBase64(source)
    ELSE [error |-> ENCODE_TYPE_INVALID_ERROR(type), reads |-> {}, lookups |-> {}]

DecodeToBinValidate ==
    /\ op' = "decodeToBinValidate"
    /\ LET r == decodeToBinValidate(encodeType, strBuf)
       IN  /\ error' = r.error
           /\ ret' = IF r.error = NoError THEN ReturnVoid ELSE NoReturn
           /\ reads' = r.reads
           /\ lookups' = r.lookups
    /\ UNCHANGED <<encodeType, binSource, strBuf, binDest, charSigned, lookupBelow>>

\* no CATCH
decodeToBinValidNoCatch(type, source) ==
    LET r == decodeToBinValidate(type, source)
    IN  [error |-> r.error, ret |-> IF r.error = NoError THEN ReturnBool(TRUE) ELSE NoReturn,
         reads |-> r.reads, lookups |-> r.lookups]

\* TRY decodeToBinValidate CATCH(FormatError): only a FormatError is caught
decodeToBinValid(type, source) ==
    LET r == decodeToBinValidate(type, source)
    IN  IF r.error.type = "FormatError"
        THEN [error |-> NoError, ret |-> ReturnBool(FALSE), reads |-> r.reads, lookups |-> r.lookups]
        ELSE IF r.error = NoError
        THEN [error |-> NoError, ret |-> ReturnBool(TRUE), reads |-> r.reads, lookups |-> r.lookups]
        ELSE [error |-> r.error, ret |-> NoReturn, reads |-> r.reads, lookups |-> r.lookups]

DecodeToBinValid ==
    /\ op' = "decodeToBinValid"
    /\ LET r == decodeToBinValid(encodeType, strBuf)
       IN  /\ error' = r.error
           /\ ret' = r.ret
           /\ reads' = r.reads
           /\ lookups' = r.lookups
    /\ UNCHANGED <<encodeType, binSource, strBuf, binDest, charSigned, lookupBelow>>

Next ==
    \/ EncodeToStr
    \/ EncodeToStrSize
    \/ DecodeToBin
    \/ DecodeToBinSize
    \/ DecodeToBinValidate
    \/ DecodeToBinValid

SpecEncode == InitEncode /\ [][Next]_vars

SpecDecode == InitDecode /\ [][Next]_vars

(***************************************************************************)
(* RFC 4648, written with division and remainder, for the properties       *)
(***************************************************************************)
\* the symbol of a 6-bit value in the standard alphabet: A-Z a-z 0-9 + /
Rfc4648Symbol(v) ==
    IF v < 26 THEN 65 + v
    ELSE IF v < 52 THEN 97 + (v - 26)
    ELSE IF v < 62 THEN 48 + (v - 52)
    ELSE IF v = 62 THEN 43
    ELSE 47

Rfc4648Chars == {Rfc4648Symbol(v) : v \in 0..63}

Rfc4648Value(c) == CHOOSE v \in 0..63 : Rfc4648Symbol(v) = c

RECURSIVE Rfc4648Encode(_)
Rfc4648Encode(b) ==
    IF Len(b) = 0 THEN <<>>
    ELSE IF Len(b) = 1
    THEN <<Rfc4648Symbol(b[1] \div 4), Rfc4648Symbol((b[1] % 4) * 16), 61, 61>>
    ELSE IF Len(b) = 2
    THEN <<Rfc4648Symbol(b[1] \div 4), Rfc4648Symbol((b[1] % 4) * 16 + b[2] \div 16),
           Rfc4648Symbol((b[2] % 16) * 4), 61>>
    ELSE <<Rfc4648Symbol(b[1] \div 4), Rfc4648Symbol((b[1] % 4) * 16 + b[2] \div 16),
           Rfc4648Symbol((b[2] % 16) * 4 + b[3] \div 64), Rfc4648Symbol(b[3] % 64)>>
             \o Rfc4648Encode(SubSeq(b, 4, Len(b)))

CeilDiv3(n) == (n + 2) \div 3

\* the characters of a C string, without its terminator
TextOf(s) == SubSeq(s, 1, strlen(s))

\* the '=' of a text are its last k characters only
PadSuffix(t, k) == \A i \in 1..Len(t) : (t[i] = 61) <=> (i > Len(t) - k)

\* alphabet symbols followed by at most two '='
WellFormedText(t) ==
    /\ \A i \in 1..Len(t) : t[i] \in Rfc4648Chars \cup {61}
    /\ \E k \in 0..2 : k <= Len(t) /\ PadSuffix(t, k)

\* the bits of the last symbol that no decoded byte takes are zero
CanonicalText(t) ==
    /\ WellFormedText(t)
    /\ Len(t) >= 4
    /\ (t[Len(t)] = 61 /\ t[Len(t) - 1] # 61) => Rfc4648Value(t[Len(t) - 1]) % 4 = 0
    /\ (t[Len(t)] = 61 /\ t[Len(t) - 1] = 61) => Rfc4648Value(t[Len(t) - 2]) % 16 = 0

SizeError(n) == FormatError("base64 size %zu is not evenly divisible by 4", n)

(***************************************************************************)
(* Properties                                                              *)
(***************************************************************************)
\* C1: round trip. When encodeToStr(encodeBase64) has just written the string and decodeToBin(encodeBase64)
\* is called on it, the decode throws nothing and writes exactly the bytes that were encoded, in order
\* and with the same count; the empty byte sequence included.
C1_RoundTrip ==
    [][(encodeType = encodeBase64 /\ op = "encodeToStr" /\ op' = "decodeToBin")
        => (error' = NoError /\ binDest' = binSource)]_vars

C1_Witness ==
    /\ op = "decodeToBin"
    /\ Len(binSource) >= 4
    /\ strlen(strBuf) = encodeToStrSizeBase64(Len(binSource))
    /\ binDest = binSource

\* C2: encodeToStr writes the RFC 4648 text of the bytes and then the terminator at index encodeToStrSize(n),
\* nothing above it, reads no source index >= n, and encodeToStrSize(n) = 4 * ceil(n / 3), a multiple of 4.
C2_EncodeText ==
    encodeType = encodeBase64 =>
        /\ op = "encodeToStr" =>
            /\ error = NoError
            /\ strBuf = Rfc4648Encode(binSource) \o <<0>>
            /\ Len(strBuf) = encodeToStrSizeBase64(Len(binSource)) + 1
            /\ reads \subseteq 0..(Len(binSource) - 1)
        /\ op = "encodeToStrSize" =>
            /\ ret = ReturnSize(4 * CeilDiv3(Len(binSource)))
            /\ ret.val % 4 = 0

C2_Witness ==
    /\ op = "encodeToStr"
    /\ binSource = <<77, 97>>
    /\ strBuf = <<84, 87, 69, 61, 0>>

\* C3 as stated: decodeToBinValid returns a boolean and lets no error escape, whatever the variant tag.
C3_NeverFails ==
    op = "decodeToBinValid" => (error = NoError /\ ret.kind = "bool")

\* C3 amended: for the Base64 tag decodeToBinValid lets no error escape and returns a boolean, false exactly
\* when validation throws a format error; for any other tag the invalid encode type error escapes.
C3_NeverFailsBase64 ==
    op = "decodeToBinValid" =>
        IF encodeType = encodeBase64
        THEN /\ error = NoError
             /\ ret = ReturnBool(decodeToBinValidateBase64(strBuf).error = NoError)
        ELSE /\ error = ENCODE_TYPE_INVALID_ERROR(encodeType)
             /\ ret = NoReturn

C3_Witness ==
    /\ op = "decodeToBinValid"
    /\ encodeType = encodeBase64
    /\ strlen(strBuf) = 4
    /\ ret = ReturnBool(FALSE)

\* C4 as stated: a text whose length is not a positive multiple of 4, the empty text included, fails
\* validation with the size error before any character is examined, and decodeToBinValid returns false.
C4_PositiveMultipleOf4 ==
    (encodeType = encodeBase64 /\ ~(strlen(strBuf) > 0 /\ strlen(strBuf) % 4 = 0)) =>
        /\ op = "decodeToBinValidate" => (error = SizeError(strlen(strBuf)) /\ reads = {} /\ lookups = {})
        /\ op = "decodeToBinValid" => ret = ReturnBool(FALSE)

\* C4 amended: a text whose length is not a multiple of 4 fails validation with the size error before any
\* character is examined, and decodeToBinValid returns false; the empty text, of length 0, is accepted.
C4_MultipleOf4 ==
    encodeType = encodeBase64 =>
        /\ strlen(strBuf) % 4 # 0 =>
            /\ op = "decodeToBinValidate" => (error = SizeError(strlen(strBuf)) /\ reads = {} /\ lookups = {})
            /\ op = "decodeToBinValid" => ret = ReturnBool(FALSE)
        /\ strlen(strBuf) = 0 =>
            /\ op = "decodeToBinValidate" => (error = NoError /\ ret = ReturnVoid)
            /\ op = "decodeToBinValid" => ret = ReturnBool(TRUE)

C4_Witness ==
    /\ op = "decodeToBinValidate"
    /\ encodeType = encodeBase64
    /\ strlen(strBuf) = 3
    /\ error = SizeError(3)

\* C5: for a text whose length is a positive multiple of 4, validation throws a format error when a '='
\* stands before position length-2, or at length-2 without one at length-1; and it accepts every text of
\* alphabet symbols followed by zero, one or two '='.
C5_PadPlacement ==
    LET t == TextOf(strBuf)
        n == Len(t)
    IN  (op = "decodeToBinValidate" /\ encodeType = encodeBase64 /\ n > 0 /\ n % 4 = 0) =>
            /\ ((\E i \in 1..(n - 2) : t[i] = 61) \/ (t[n - 1] = 61 /\ t[n] # 61))
                   => error.type = "FormatError"
            /\ WellFormedText(t) => (error = NoError /\ ret = ReturnVoid)

C5_Witness ==
    /\ op = "decodeToBinValidate"
    /\ encodeType = encodeBase64
    /\ TextOf(strBuf) = <<81, 81, 61, 65>>
    /\ error.type = "FormatError"

\* C6: a text of length divisible by 4 that holds a character value which is neither an alphabet symbol
\* nor '=' fails validation with a format error, the invalid character error naming the first such
\* position, and every subscript of decodeBase64Lookup lies in 0..255.
C6_InvalidCharacter ==
    LET t == TextOf(strBuf)
        bad == {i \in 1..Len(t) : t[i] \notin Rfc4648Chars \cup {61}}
    IN  (op = "decodeToBinValidate" /\ encodeType = encodeBase64 /\ Len(t) % 4 = 0 /\ bad # {}) =>
            /\ error.type = "FormatError"
            /\ error.message = "base64 invalid character found at position %u"
                   => \A i \in bad : error.arg <= i - 1
            /\ lookups \subseteq 0..255

\* C7: called with a tag other than encodeBase64, each of the six functions throws the invalid encode type
\* error, returns nothing, reads no source and writes no destination.
C7_UnsupportedVariant ==
    [][encodeType # encodeBase64 =>
        /\ error' = ENCODE_TYPE_INVALID_ERROR(encodeType)
        /\ ret' = NoReturn
        /\ reads' = {}
        /\ lookups' = {}
        /\ strBuf' = strBuf
        /\ binDest' = binDest]_vars

C7_Witness ==
    /\ op = "decodeToBinValid"
    /\ encodeType # encodeBase64
    /\ strlen(strBuf) = 4
    /\ error.type = "AssertError"

\* C8: for every text the validator accepts, the shortest included, decodeToBinSize returns the number of
\* bytes decodeToBin writes, length/4*3 less one for each trailing '=', reads no character outside
\* 0..length-1 and does not wrap around.
C8_DecodeSize ==
    LET t == TextOf(strBuf)
        n == Len(t)
        pads == Cardinality({i \in 1..n : i > n - 2 /\ t[i] = 61})
    IN  (op = "decodeToBinSize" /\ error = NoError) =>
            /\ ret = ReturnSize(Len(decodeToBinBase64(strBuf).destination))
            /\ ret = ReturnSize((n \div 4) * 3 - pads)
            /\ reads \subseteq 0..(n - 1)

\* C9: decoding validates first. When validation rejects the string, decodeToBin and decodeToBinSize throw
\* the error validation throws, return nothing, and the destination of decodeToBin is left as it was.
C9_ValidateFirst ==
    [][(encodeType = encodeBase64 /\ op' \in {"decodeToBin", "decodeToBinSize"}
            /\ decodeToBinValidateBase64(strBuf).error # NoError)
        => /\ error' = decodeToBinValidateBase64(strBuf).error
           /\ ret' = NoReturn
           /\ binDest' = binDest]_vars

C9_Witness ==
    /\ op = "decodeToBin"
    /\ encodeType = encodeBase64
    /\ TextOf(strBuf) = <<81, 61, 81, 65>>
    /\ error = FormatError("base64 '=' character may only appear in last two positions", -1)
    /\ binDest = <<>>

\* C10 as stated: encoding the bytes decoded from an accepted non-empty text gives that text back.
C10_Canonical ==
    (op = "decodeToBin" /\ error = NoError /\ strlen(strBuf) > 0) =>
        encodeToStrBase64(binDest, Len(binDest)).destination = strBuf

\* C10 amended: encoding the bytes decoded from an accepted non-empty text gives that text back when the
\* text is alphabet symbols and trailing '=' and the bits of its last symbol that no byte takes are zero;
\* acceptance does not ask for those bits to be zero.
C10_CanonicalOnly ==
    (op = "decodeToBin" /\ error = NoError /\ strlen(strBuf) > 0 /\ CanonicalText(TextOf(strBuf))) =>
        encodeToStrBase64(binDest, Len(binDest)).destination = strBuf

C10_Witness ==
    /\ op = "decodeToBin"
    /\ error = NoError
    /\ TextOf(strBuf) = <<81, 81, 81, 81, 81, 81, 61, 61>>
    /\ encodeToStrBase64(binDest, Len(binDest)).destination = strBuf

TypeOK ==
    /\ encodeType \in EncodeTypes
    /\ op \in {"none", "encodeToStr", "encodeToStrSize", "decodeToBin", "decodeToBinSize",
               "decodeToBinValidate", "decodeToBinValid"}
    /\ error.type \in {"none", "FormatError", "AssertError"}
    /\ ret.kind \in {"none", "void", "size", "bool"}
    /\ \A i \in 1..Len(binDest) : binDest[i] \in 0..255
    /\ \A i \in 1..Len(strBuf) : strBuf[i] \in 0..255
====
